---- MODULE Spec2Model ----
(***************************************************************************)
(* Model of app.py, a Streamlit page: every user interaction re-runs the   *)
(* whole script (load the CSV, clean it, filter it by the sidebar widgets, *)
(* fit the TF-IDF vectorizer, search the filtered view for the main-area   *)
(* query, show details and a pie chart or fall back to suggestions).       *)
(*                                                                         *)
(* Text is a tuple of one-character strings, so that lower(), the          *)
(* tokenizer, substring search and the regular-expression search can be    *)
(* computed as the libraries compute them.                                 *)
(***************************************************************************)
EXTENDS Integers, Sequences, FiniteSets, TLC

\* ------------------------------------------------------------------ bounds

\* Largest number of rows of the CSV file.
MaxRows == 2

\* ------------------------------------------------------------ evaluation

\* F applied to the value of v. A bound variable holds a value, whereas an
\* operator's argument is an expression that may be evaluated again every
\* time the operator reads it: With evaluates v once.
With(v, F(_)) == CHOOSE r \in {F(x) : x \in {v}} : TRUE

\* ------------------------------------------------------------------ text

\* str.lower() on one character of the model's alphabet.
Lower(c) ==
    CASE c = "A" -> "a"
      [] c = "B" -> "b"
      [] c = "C" -> "c"
      [] c = "D" -> "d"
      [] c = "N" -> "n"
      [] c = "Y" -> "y"
      [] OTHER -> c

\* str.lower() on a text.
LowerText(s) == [i \in 1..Len(s) |-> Lower(s[i])]

\* \w of the regular expressions: letters and digits (and "_").
IsWord(c) == c \notin {" ", ".", "(", "/"}

\* The digits pd.to_numeric reads.
DigitValue(c) ==
    CASE c = "0" -> 0
      [] c = "1" -> 1
      [] c = "2" -> 2
      [] c = "3" -> 3
      [] c = "4" -> 4
      [] c = "5" -> 5
      [] c = "6" -> 6
      [] c = "7" -> 7
      [] c = "8" -> 8
      [] c = "9" -> 9
      [] OTHER -> -1

\* The text pandas writes into a missing cell: data.fillna("N/A").
NA == <<"N", "/", "A">>

\* A missing cell of the CSV (pandas reads an empty field as NaN).
NaN == <<>>

\* ------------------------------------------------------------ vectorizer

\* TfidfVectorizer's analyzer with its defaults: the text lower-cased, then
\* every match of (?u)\b\w\w+\b, that is every maximal run of two or more
\* word characters, in order.
RECURSIVE Scan(_, _, _, _)
Scan(s, i, run, acc) ==
    IF i > Len(s) THEN (IF Len(run) >= 2 THEN Append(acc, run) ELSE acc)
    ELSE IF IsWord(s[i])
    THEN With(<<i + 1, Append(run, Lower(s[i]))>>,
              LAMBDA x : Scan(s, x[1], x[2], acc))
    ELSE With(<<i + 1, IF Len(run) >= 2 THEN Append(acc, run) ELSE acc>>,
              LAMBDA x : Scan(s, x[1], <<>>, x[2]))

Tokenize(s) == With(s, LAMBDA text : Scan(text, 1, <<>>, <<>>))

\* Term frequency: how many times token t occurs among the tokens of a text.
TermCount(t, toks) ==
    Cardinality({i \in 1..Len(toks) : toks[i] = t})

\* Smoothed inverse document frequency, ln((1 + n) / (1 + df)) + 1, in
\* tenths (rounded): n documents, df of them holding the term.
Idf(n, df) ==
    LET ratio == <<1 + n, 1 + df>>
    IN  CASE df = n -> 10
          [] ratio = <<3, 2>> -> 14
          [] ratio = <<4, 2>> -> 17
          [] ratio = <<4, 3>> -> 13
          [] ratio = <<5, 2>> -> 19
          [] ratio = <<5, 3>> -> 15
          [] ratio = <<5, 4>> -> 12
          [] ratio = <<6, 2>> -> 21
          [] ratio = <<6, 3>> -> 17
          [] ratio = <<6, 4>> -> 14
          [] ratio = <<6, 5>> -> 12

\* The vocabulary as fit builds it: every distinct token of the documents,
\* each with a column index (here in order of first occurrence; the order of
\* the columns changes no dot product).
RECURSIVE AddTerms(_, _, _)
AddTerms(terms, toks, i) ==
    IF i > Len(toks) THEN terms
    ELSE With(<<IF \E k \in 1..Len(terms) : terms[k] = toks[i]
                THEN terms ELSE Append(terms, toks[i]),
                i + 1>>,
              LAMBDA x : AddTerms(x[1], toks, x[2]))

RECURSIVE Vocabulary(_, _, _)
Vocabulary(docs, i, terms) ==
    IF i > Len(docs) THEN terms
    ELSE With(<<i + 1, AddTerms(terms, docs[i], 1)>>,
              LAMBDA x : Vocabulary(docs, x[1], x[2]))

\* The number of documents that hold term t.
DocumentFrequency(t, docs) ==
    Cardinality({i \in 1..Len(docs) : TermCount(t, docs[i]) > 0})

\* vectorizer.fit(names): the vocabulary and each term's idf weight.
\* (Appending <<>> to a sequence changes nothing: it has TLC hold the
\* sequence evaluated instead of re-evaluating its entries.)
Fit(names) ==
    With([i \in 1..Len(names) |-> Tokenize(names[i])] \o <<>>,
         LAMBDA docs :
             With(Vocabulary(docs, 1, <<>>),
                  LAMBDA terms :
                      [terms |-> terms,
                       idf |-> [k \in 1..Len(terms) |->
                                   Idf(Len(docs), DocumentFrequency(terms[k], docs))]
                               \o <<>>]))

\* vectorizer.transform([s]): the weight of every vocabulary term in s; a
\* token outside the vocabulary is dropped. (The l2 normalisation is left to
\* the cosine, which normalises again.)
Transform(model, s) ==
    With(Tokenize(s),
         LAMBDA toks :
             [k \in 1..Len(model.terms) |->
                 TermCount(model.terms[k], toks) * model.idf[k]] \o <<>>)

RECURSIVE DotFrom(_, _, _)
DotFrom(u, v, k) == IF k > Len(u) THEN 0 ELSE u[k] * v[k] + DotFrom(u, v, k + 1)

Dot(u, v) == DotFrom(u, v, 1)

\* cosine_similarity of two non-negative vectors, held exactly as the
\* fraction num/den of its square; 0 when either vector is zero (sklearn's
\* normalize leaves a zero vector as it is, so nothing is divided by zero).
CosineSimilarity(u, v) ==
    With(<<Dot(u, v), Dot(u, u) * Dot(v, v)>>,
         LAMBDA x : IF x[2] = 0 THEN [num |-> 0, den |-> 1]
                    ELSE [num |-> x[1] * x[1], den |-> x[2]])

\* Sign of a/b - c/d for b, d > 0 and a, c >= 0, by continued fractions
\* (no product that could overflow).
RECURSIVE CompareFractions(_, _, _, _)
CompareFractions(a, b, c, d) ==
    IF a \div b /= c \div d THEN (IF a \div b > c \div d THEN 1 ELSE -1)
    ELSE IF a % b = 0 /\ c % d = 0 THEN 0
    ELSE IF a % b = 0 THEN -1
    ELSE IF c % d = 0 THEN 1
    ELSE With(<<d, c % d, b, a % b>>,
              LAMBDA x : CompareFractions(x[1], x[2], x[3], x[4]))

\* x > y on similarities.
Greater(x, y) == CompareFractions(x.num, x.den, y.num, y.den) = 1

\* Mutant of AboveThreshold: the threshold taken as 1.0 instead of 0.5.
AboveThresholdOfOne(x) == x.num > x.den

\* similarity > 0.5, that is similarity squared > 1/4.
AboveThreshold(x) == 4 * x.num > x.den

\* similarity = 1.0.
IsOne(x) == x.num = x.den

\* np.argmax: the index of the first maximal entry; on an empty array numpy
\* raises ValueError, which is index 0 here.
RECURSIVE ArgMaxFrom(_, _, _)
ArgMaxFrom(sims, i, best) ==
    IF i > Len(sims) THEN best
    ELSE With(<<i + 1, IF Greater(sims[i], sims[best]) THEN i ELSE best>>,
              LAMBDA x : ArgMaxFrom(sims, x[1], x[2]))

\* Mutant of ArgMax: the last maximal entry instead of the first.
RECURSIVE ArgMaxLastFrom(_, _, _)
ArgMaxLastFrom(sims, i, best) ==
    IF i > Len(sims) THEN best
    ELSE With(<<i + 1, IF Greater(sims[best], sims[i]) THEN best ELSE i>>,
              LAMBDA x : ArgMaxLastFrom(sims, x[1], x[2]))

ArgMaxLast(sims) == IF sims = <<>> THEN 0 ELSE ArgMaxLastFrom(sims, 2, 1)

ArgMax(sims) == IF sims = <<>> THEN 0 ELSE ArgMaxFrom(sims, 2, 1)

\* ------------------------------------------------------------------- load

\* The optional columns of the CSV file.
OptionalColumns == {"is_harmful?", "harmful_ingredient_count", "total_ingredients"}

\* pd.to_numeric(cell, errors='coerce') on one cell, then .fillna(0) and
\* .astype(int): a run of digits is its value, anything else (a missing
\* cell is "N/A" by now) becomes NaN and then 0.
RECURSIVE ParseDigits(_, _, _)
ParseDigits(s, i, acc) ==
    IF i > Len(s) THEN acc
    ELSE IF DigitValue(s[i]) < 0 THEN -1
    ELSE With(<<i + 1, 10 * acc + DigitValue(s[i])>>,
              LAMBDA x : ParseDigits(s, x[1], x[2]))

ToNumeric(cell) ==
    With(IF cell = <<>> THEN -1 ELSE ParseDigits(cell, 1, 0),
         LAMBDA v : IF v < 0 THEN 0 ELSE v)

\* data.fillna("N/A") on one cell.
FillNA(cell) == IF cell = NaN THEN NA ELSE cell

\* Lines 13-21 and 110-112: read the file, default a missing 'Is Harmful?'
\* column to 'No', fill the missing cells and coerce the two counts.
\* data.get(column, 0) of an absent column is the scalar 0, pd.to_numeric
\* gives that scalar back and .fillna on it raises AttributeError, outside
\* any try: the run stops there.
Load(file) ==
    LET has(c) == c \in file.columns
        row(r) ==
            [product_name |-> FillNA(r.product_name),
             brand |-> r.brand,
             category |-> r.category,
             is_harmful |-> IF has("is_harmful?") THEN FillNA(r.is_harmful)
                            ELSE <<"N", "o">>,
             harmful_ingredient_count |-> ToNumeric(FillNA(r.harmful_ingredient_count)),
             total_ingredients |-> ToNumeric(FillNA(r.total_ingredients))]
    IN  IF has("harmful_ingredient_count") /\ has("total_ingredients")
        THEN [raised |-> "", data |-> [i \in 1..Len(file.rows) |-> row(file.rows[i])] \o <<>>]
        ELSE [raised |-> "AttributeError", data |-> <<>>]

\* ----------------------------------------------------------------- filter

\* Mutant of CategoryAtFilter: the filter reading the main-area selectbox,
\* as if the rebinding of line 146 came before line 116.
CategoryReboundAtFilter(w) == w.main_category

\* The value bound to category_filter when line 116 reads it: the sidebar
\* selectbox of line 105 (line 146 rebinds the name only later).
CategoryAtFilter(w) == w.category_filter

\* The value bound to brand_filter when line 118 reads it (line 106).
BrandAtFilter(w) == w.brand_filter

\* Mutant of FilteredData: the harmful flag compared without .str.lower().
FilteredDataExactFlag(data, w) ==
    LET byCategory ==
            IF CategoryAtFilter(w) /= "All"
            THEN SelectSeq(data, LAMBDA p : p.category = CategoryAtFilter(w))
            ELSE data
        byBrand ==
            IF BrandAtFilter(w) /= {}
            THEN SelectSeq(byCategory, LAMBDA p : p.brand \in BrandAtFilter(w))
            ELSE byCategory
    IN  IF w.harmful_filter /= <<"A", "l", "l">>
        THEN SelectSeq(byBrand, LAMBDA p : p.is_harmful = w.harmful_filter)
        ELSE byBrand

\* Lines 115-121: the three successive selections on a copy of data.
FilteredData(data, w) ==
    LET byCategory ==
            IF CategoryAtFilter(w) /= "All"
            THEN SelectSeq(data, LAMBDA p : p.category = CategoryAtFilter(w))
            ELSE data
        byBrand ==
            IF BrandAtFilter(w) /= {}
            THEN SelectSeq(byCategory, LAMBDA p : p.brand \in BrandAtFilter(w))
            ELSE byCategory
    IN  IF w.harmful_filter /= <<"A", "l", "l">>
        THEN SelectSeq(byBrand,
                 LAMBDA p : LowerText(p.is_harmful) = LowerText(w.harmful_filter))
        ELSE byBrand

\* ----------------------------------------------------------------- inputs

\* The rows a CSV file is drawn from.
\*   1  "ab cd"        two words; flag "Yes"; 7 harmful of 10 ingredients
\*   2  "AB CD"        the same words in other case; flag "yes"; 7 harmful of 5
\*   3  "ab cd ef gh"  four words; flag "No"; a malformed harmful count and
\*                     a missing total
\*   4  "a b"          no word of two characters; no flag; 3 harmful of 0
Catalog ==
    <<[product_name |-> <<"a", "b", " ", "c", "d">>,
       brand |-> "Acme", category |-> "Drinks",
       is_harmful |-> <<"Y", "e", "s">>,
       harmful_ingredient_count |-> <<"7">>, total_ingredients |-> <<"1", "0">>],
      [product_name |-> <<"A", "B", " ", "C", "D">>,
       brand |-> "Bolt", category |-> "Drinks",
       is_harmful |-> <<"y", "e", "s">>,
       harmful_ingredient_count |-> <<"7">>, total_ingredients |-> <<"5">>],
      [product_name |-> <<"a", "b", " ", "c", "d", " ", "e", "f", " ", "g", "h">>,
       brand |-> "Bolt", category |-> "Snacks",
       is_harmful |-> <<"N", "o">>,
       harmful_ingredient_count |-> <<"x">>, total_ingredients |-> NaN],
      [product_name |-> <<"a", " ", "b">>,
       brand |-> "Acme", category |-> "Snacks",
       is_harmful |-> NaN,
       harmful_ingredient_count |-> <<"3">>, total_ingredients |-> <<"0">>]>>

\* The files: up to MaxRows distinct rows of the catalog in any order, with
\* any of the optional columns present.
RowLists ==
    UNION {{r \in [1..n -> 1..Len(Catalog)] : \A i, j \in 1..n : i /= j => r[i] /= r[j]}
           : n \in 1..MaxRows}

Files ==
    {[columns |-> cols, rows |-> [i \in 1..Len(r) |-> Catalog[r[i]]]]
     : cols \in SUBSET OptionalColumns, r \in RowLists}

\* The texts typed into the main-area "Product Name:" box.
Queries ==
    {<<>>,
     <<"a", "b", " ", "c", "d">>,
     <<"a", "b">>,
     <<"a", " ", "b">>,
     <<"b", ".", "c">>,
     <<"(">>}

\* The texts typed into the sidebar's search box.
SidebarQueries == {<<>>, <<"a", "b">>}

\* The radio of line 107.
HarmfulOptions == {<<"A", "l", "l">>, <<"Y", "e", "s">>, <<"N", "o">>}

\* The options of the two category selectboxes (lines 105, 146): "All" and
\* the categories of the file.
CategoryOptions(file) ==
    {"All"} \cup {file.rows[i].category : i \in 1..Len(file.rows)}

\* The options of the two brand multiselects (lines 106, 147).
BrandOptions(file) == {file.rows[i].brand : i \in 1..Len(file.rows)}

\* ------------------------------------------------------- fitted vectors

\* Every text the vectorizer is given: the product names and the queries.
Texts == {FillNA(Catalog[i].product_name) : i \in 1..Len(Catalog)} \cup Queries

\* data['product_name'] of every file.
NameColumns ==
    {[i \in 1..Len(f.rows) |-> FillNA(f.rows[i].product_name)] : f \in Files}

\* Lines 132-133: the vectorizer fit on the product names of the whole file,
\* computed once for each name column. (@@ <<>> changes nothing: it has TLC
\* hold the table evaluated.)
Vectorizers == [names \in NameColumns |-> Fit(names)] @@ <<>>

\* vectorizer.transform of a text under the vectorizer of a name column.
Vectors ==
    [x \in NameColumns \X Texts |->
        With(Vectorizers[x[1]], LAMBDA vectorizer : Transform(vectorizer, x[2]))]
    @@ <<>>

\* ----------------------------------------------------------------- search

\* re.compile(pattern) on the patterns of the model's alphabet: "(" opens a
\* group that nothing closes (the alphabet has no ")"), which re refuses
\* with re.error; every other character compiles.
PatternCompiles(pattern) == \A i \in 1..Len(pattern) : pattern[i] /= "("

\* One pattern character against one character under re.IGNORECASE: "."
\* matches any character, every other character matches itself.
CharMatches(pc, c) == pc = "." \/ Lower(pc) = Lower(c)

\* Series.str.contains(pattern, case=False, na=False) on one text: pandas
\* takes the pattern as a regular expression (regex=True is the default)
\* and searches it anywhere in the text.
StrContains(text, pattern) ==
    \E k \in 0..(Len(text) - Len(pattern)) :
        \A i \in 1..Len(pattern) : CharMatches(pattern[i], text[k + i])

\* Lines 137-139: the similarity of the query to the name of every
\* candidate, under the vectorizer fit on the name column names.
Similarities(query, candidates, names) ==
    With(<<Vectors[<<names, query>>],
           [i \in 1..Len(candidates) |->
               Vectors[<<names, candidates[i].product_name>>]] \o <<>>>>,
         LAMBDA x :
             [i \in 1..Len(candidates) |-> CosineSimilarity(x[1], x[2][i])] \o <<>>)

\* Lines 136-141, search_product: the candidate of the first maximal
\* similarity. cosine_similarity (and np.argmax) raise ValueError on zero
\* candidates.
SearchProduct(query, candidates, names) ==
    IF candidates = <<>>
    THEN [raised |-> "ValueError", index |-> 0, similarity |-> [num |-> 0, den |-> 1],
          similarities |-> <<>>]
    ELSE With(Similarities(query, candidates, names),
              LAMBDA sims :
                  With(ArgMax(sims),
                       LAMBDA best :
                           [raised |-> "", index |-> best, similarity |-> sims[best],
                            similarities |-> sims]))

\* Lines 158-173: the two wedge sizes; ax.pie raises ValueError when a wedge
\* size is negative.
ChartInputs(p) ==
    <<p.harmful_ingredient_count, p.total_ingredients - p.harmful_ingredient_count>>

\* Mutant of Caught: a handler written "except ValueError".
CaughtValueErrorOnly(exception) == exception = "ValueError"

\* What "except Exception" (line 189) catches.
Caught(exception) == exception \in {"ValueError", "re.error", "AttributeError"}

\* A page on which nothing was searched.
NoSearch ==
    [branch |-> "none", index |-> 0, similarity |-> [num |-> 0, den |-> 1],
     similarities |-> <<>>, chart |-> "none", chart_inputs |-> <<0, 0>>,
     suggestions |-> <<>>, raised |-> ""]

\* Lines 153-188: what the page shows for the result of search_product.
Display(query, filtered, found) ==
    LET base == [NoSearch EXCEPT !.index = found.index,
                                 !.similarity = found.similarity,
                                 !.similarities = found.similarities]
        inputs == ChartInputs(filtered[found.index])
    IN  IF found.raised /= "" THEN [base EXCEPT !.raised = found.raised]
        ELSE IF AboveThreshold(found.similarity)
        THEN IF inputs[1] + inputs[2] > 0
             THEN IF inputs[1] < 0 \/ inputs[2] < 0
                  THEN [base EXCEPT !.branch = "match", !.chart_inputs = inputs,
                                    !.raised = "ValueError"]
                  ELSE [base EXCEPT !.branch = "match", !.chart_inputs = inputs,
                                    !.chart = "pie"]
             ELSE [base EXCEPT !.branch = "match", !.chart_inputs = inputs,
                               !.chart = "warning"]
        ELSE IF PatternCompiles(query)
        THEN [base EXCEPT !.branch = "nomatch",
                          !.suggestions =
                              SelectSeq(filtered,
                                  LAMBDA p : StrContains(p.product_name, query))]
        ELSE [base EXCEPT !.branch = "nomatch", !.raised = "re.error"]

\* Lines 150-188, the body of the try.
TryBlock(query, filtered, names) ==
    With(SearchProduct(query, filtered, names),
         LAMBDA found : Display(query, filtered, found))

\* Lines 151 and 189-190: the run that reached the search ends "ok", or
\* "error" when the handler caught what the try raised.
Finish(data, filtered, tried) ==
    [status |-> IF tried.raised = "" THEN "ok"
                ELSE IF Caught(tried.raised) THEN "error" ELSE "crash",
     stage |-> "search", data |-> data, filtered_data |-> filtered, search |-> tried]

\* Lines 114-190 on the cleaned data: the filter, the fit, the search.
Page(data, filtered, names, w) ==
    IF Vectorizers[names].terms = <<>>
    THEN [status |-> "crash", stage |-> "fit", data |-> data,
          filtered_data |-> filtered, search |-> NoSearch]
    ELSE With(IF w.query /= <<>> THEN TryBlock(w.query, filtered, names)
              ELSE NoSearch,
              LAMBDA tried : Finish(data, filtered, tried))

\* One run of the script, top to bottom, for a file and the widgets' values.
\* stage is how far the run got: "load" when the cleaning of lines 110-112
\* raised, "fit" when vectorizer.fit (line 133) raised, which it does with
\* ValueError on an empty vocabulary, "search" when the run reached the end.
\* status is "crash" when an exception left the script, "error" when the
\* handler of line 189 reported one with st.error, "ok" otherwise.
RunScript(file, w) ==
    With(<<Load(file), w>>,
         LAMBDA x :
             IF x[1].raised /= ""
             THEN [status |-> "crash", stage |-> "load", data |-> <<>>,
                   filtered_data |-> <<>>, search |-> NoSearch]
             ELSE With(<<FilteredData(x[1].data, x[2]),
                         [i \in 1..Len(x[1].data) |-> x[1].data[i].product_name] \o <<>>>>,
                       LAMBDA y : Page(x[1].data, y[1], y[2], x[2])))

\* ------------------------------------------------------------------ state

VARIABLES
    csv,            \* food_data.csv
    widgets,        \* the session's widget values
    page            \* what the last run of the script produced

vars == <<csv, widgets, page>>

\* The widgets before the user touches them.
DefaultWidgets ==
    [sidebar_query |-> <<>>, category_filter |-> "All", brand_filter |-> {},
     harmful_filter |-> <<"A", "l", "l">>,
     query |-> <<>>, main_category |-> "All", main_brand |-> {}]

\* The files that have every optional column.
CompleteFiles == {f \in Files : f.columns = OptionalColumns}

Init ==
    /\ csv \in CompleteFiles
    /\ widgets = DefaultWidgets
    /\ page = RunScript(csv, widgets)

\* The same session over a file that may lack optional columns.
InitLoad ==
    /\ csv \in Files
    /\ widgets = DefaultWidgets
    /\ page = RunScript(csv, widgets)

\* Streamlit re-runs the script when a widget's value changes.
Rerun(w) ==
    /\ w /= widgets
    /\ widgets' = w
    /\ page' = RunScript(csv, w)
    /\ UNCHANGED csv

\* The sidebar's widgets are drawn (lines 104-107) before anything can fail.
TypeSidebarQuery ==
    \E q \in SidebarQueries : Rerun([widgets EXCEPT !.sidebar_query = q])

SelectCategory ==
    \E c \in CategoryOptions(csv) : Rerun([widgets EXCEPT !.category_filter = c])

SelectBrand ==
    \E b \in SUBSET BrandOptions(csv) : Rerun([widgets EXCEPT !.brand_filter = b])

ChooseHarmful ==
    \E h \in HarmfulOptions : Rerun([widgets EXCEPT !.harmful_filter = h])

\* The main area's widgets (lines 145-147) exist only on a page whose run
\* got that far.
TypeQuery ==
    /\ page.status /= "crash"
    /\ \E q \in Queries : Rerun([widgets EXCEPT !.query = q])

SelectMainCategory ==
    /\ page.status /= "crash"
    /\ \E c \in {"All", csv.rows[1].category} :
           Rerun([widgets EXCEPT !.main_category = c])

SelectMainBrand ==
    /\ page.status /= "crash"
    /\ \E b \in {{}, {csv.rows[1].brand}} : Rerun([widgets EXCEPT !.main_brand = b])

Next ==
    \/ TypeSidebarQuery
    \/ SelectCategory
    \/ SelectBrand
    \/ ChooseHarmful
    \/ TypeQuery
    \/ SelectMainCategory
    \/ SelectMainBrand

Spec == Init /\ [][Next]_vars

SpecLoad == InitLoad /\ [][Next]_vars

\* ----------------------------------------------------------------- claims

\* The last run loaded, cleaned and filtered the file.
Loaded == page.stage /= "load"

\* The last run evaluated a query.
Searched == page.stage = "search" /\ widgets.query /= <<>>

\* text contains query as a literal substring, letter case ignored.
ContainsLiteral(text, query) ==
    \E k \in 0..(Len(text) - Len(query)) :
        \A i \in 1..Len(query) : Lower(query[i]) = Lower(text[k + i])

\* The greatest of the candidates' similarities is x.
IsMaximal(x, sims) ==
    /\ \E i \in 1..Len(sims) : sims[i] = x
    /\ \A i \in 1..Len(sims) : ~Greater(sims[i], x)

\* C1: for a non-empty query and a non-empty candidate set, the outcome is a
\* match exactly when the maximal similarity is above 0.5; otherwise it is
\* NoMatch with suggestions, and is never reported as an error.
C1_ThresholdDecidesOutcome ==
    (Searched /\ page.filtered_data /= <<>>) =>
        \A i \in 1..Len(page.search.similarities) :
            LET x == page.search.similarities[i]
            IN  IsMaximal(x, page.search.similarities) =>
                    /\ page.search.branch = "match" <=> AboveThreshold(x)
                    /\ ~AboveThreshold(x) =>
                           /\ page.search.branch = "nomatch"
                           /\ page.status = "ok"

\* C2: when the filtered view is empty, a search gives NoMatch and neither
\* raises nor reports an error.
C2_EmptyCandidatesGiveNoMatch ==
    (Searched /\ page.filtered_data = <<>>) =>
        /\ page.search.branch = "nomatch"
        /\ page.search.raised = ""
        /\ page.status = "ok"

\* A product passes the sidebar's criteria, the harmful flag compared with
\* letter case ignored.
Passes(p, w) ==
    /\ w.category_filter = "All" \/ w.category_filter = p.category
    /\ w.brand_filter = {} \/ p.brand \in w.brand_filter
    /\ \/ w.harmful_filter = <<"A", "l", "l">>
       \/ LowerText(w.harmful_filter) = LowerText(p.is_harmful)

\* The same with the harmful flag compared exactly.
PassesExactly(p, w) ==
    /\ w.category_filter = "All" \/ w.category_filter = p.category
    /\ w.brand_filter = {} \/ p.brand \in w.brand_filter
    /\ w.harmful_filter = <<"A", "l", "l">> \/ w.harmful_filter = p.is_harmful

\* C3 (as amended): the filtered view is the order-preserving subsequence of
\* the corpus of the products whose category and brand pass and whose
\* harmful flag equals the chosen one up to letter case; the corpus itself
\* is what was loaded.
C3_FilteredViewIsSelection ==
    Loaded =>
        /\ page.filtered_data = SelectSeq(page.data, LAMBDA p : Passes(p, widgets))
        /\ \A i \in 1..Len(page.filtered_data) :
               \E j \in 1..Len(page.data) : page.data[j] = page.filtered_data[i]
        /\ page.data = Load(csv).data

\* C3 as stated: the harmful flag has to equal the chosen value.
C3_FilterByExactFlag ==
    Loaded =>
        page.filtered_data = SelectSeq(page.data, LAMBDA p : PassesExactly(p, widgets))

\* All three criteria are set and keep a product whose flag is written
\* "yes", dropping another product.
C3_Witness ==
    /\ Loaded
    /\ widgets.category_filter /= "All"
    /\ widgets.brand_filter /= {}
    /\ widgets.harmful_filter = <<"Y", "e", "s">>
    /\ Len(page.filtered_data) < Len(page.data)
    /\ \E i \in 1..Len(page.filtered_data) :
           page.filtered_data[i].is_harmful = <<"y", "e", "s">>

\* C4: the search returns a candidate of maximal similarity, and of several
\* maximal ones the first in the candidates' order.
C4_FirstMaximalCandidate ==
    (Searched /\ page.filtered_data /= <<>>) =>
        LET sims == page.search.similarities
            k == page.search.index
        IN  /\ Len(sims) = Len(page.filtered_data)
            /\ k \in 1..Len(sims)
            /\ page.search.similarity = sims[k]
            /\ \A i \in 1..Len(sims) : ~Greater(sims[i], sims[k])
            /\ \A i \in 1..(k - 1) : Greater(sims[k], sims[i])

\* Two candidates with the same positive similarity, the first returned.
C4_Witness ==
    /\ Searched
    /\ Len(page.filtered_data) >= 2
    /\ page.search.index = 1
    /\ page.search.similarities[1].num > 0
    /\ page.search.similarities[2] = page.search.similarities[1]

\* C5: on the NoMatch path the suggestions are the candidates whose name
\* contains the query as a literal substring (case ignored), in order,
\* whatever characters the query holds.
C5_SuggestionsAreLiteralSubstrings ==
    (Searched /\ page.search.branch = "nomatch") =>
        /\ page.status = "ok"
        /\ page.search.suggestions =
               SelectSeq(page.filtered_data,
                   LAMBDA p : ContainsLiteral(p.product_name, widgets.query))

\* C6: for a matched product both chart inputs are non-negative, the
\* no-chart branch is taken exactly when both are zero, and otherwise the
\* chart is drawn from them.
C6_ChartInputsNonNegative ==
    (Searched /\ page.search.branch = "match") =>
        LET inputs == page.search.chart_inputs
        IN  /\ inputs[1] >= 0 /\ inputs[2] >= 0
            /\ page.search.chart = "warning" <=> inputs = <<0, 0>>
            /\ inputs /= <<0, 0>> => page.search.chart = "pie"

\* Both texts have tokens and their token counts are proportional: the same
\* words in the same proportions, whatever their order and case.
SameTerms(a, b) ==
    LET ta == Tokenize(a)
        tb == Tokenize(b)
        terms == {ta[i] : i \in 1..Len(ta)} \cup {tb[i] : i \in 1..Len(tb)}
    IN  /\ ta /= <<>>
        /\ tb /= <<>>
        /\ \A t, u \in terms :
               TermCount(t, ta) * TermCount(u, tb) = TermCount(u, ta) * TermCount(t, tb)

\* C7 as stated: a query equal to a name that is unique in the corpus
\* returns that product with similarity 1.0, as a match. (Unique is read
\* here in the claim's favour: no other product's name has the same words.)
C7_ExactNameReturnsThatProduct ==
    Searched =>
        \A i \in 1..Len(page.data) :
            (/\ page.data[i].product_name = widgets.query
             /\ \A j \in 1..Len(page.data) :
                    j /= i => ~SameTerms(page.data[j].product_name, widgets.query))
            => /\ page.search.branch = "match"
               /\ IsOne(page.search.similarity)
               /\ page.search.index > 0
               /\ page.filtered_data[page.search.index] = page.data[i]

\* C7 (as amended): a query equal to the name of a product of the filtered
\* view, the name holding at least one token, is a match of similarity 1.0,
\* and the product returned is the first candidate whose name has the
\* query's words in the same proportions: that product itself unless such a
\* candidate comes before it.
C7_ExactNameOfCandidate ==
    Searched =>
        \A i \in 1..Len(page.filtered_data) :
            (/\ page.filtered_data[i].product_name = widgets.query
             /\ Tokenize(widgets.query) /= <<>>)
            => /\ page.search.branch = "match"
               /\ IsOne(page.search.similarity)
               /\ page.search.index \in 1..i
               /\ SameTerms(page.filtered_data[page.search.index].product_name,
                            widgets.query)
               /\ \A j \in 1..(page.search.index - 1) :
                      ~SameTerms(page.filtered_data[j].product_name, widgets.query)

\* The query is the name of the second candidate, which is returned with
\* similarity 1.0.
C7_Witness ==
    /\ Searched
    /\ Len(page.filtered_data) >= 2
    /\ page.filtered_data[2].product_name = widgets.query
    /\ page.search.index = 2
    /\ page.search.branch = "match"
    /\ IsOne(page.search.similarity)

\* C8: a failure raised while a query is evaluated is reported by the
\* handler, never fatal, and leaves the corpus and the filtered view in
\* place; the run that follows a failed one works on the same corpus and
\* gives what a first run of the same inputs gives.
C8_FailuresAreContained ==
    [][/\ csv' = csv
       /\ page'.stage = "search" =>
              /\ page'.status /= "crash"
              /\ page'.search.raised /= "" =>
                     /\ page'.status = "error"
                     /\ page'.data = Load(csv).data
                     /\ page'.filtered_data = FilteredData(page'.data, widgets')
       /\ page.status = "error" =>
              /\ page'.data = page.data
              /\ page' = RunScript(csv, widgets')]_vars

\* A run that reported an error, with the corpus and a non-empty filtered
\* view still in place.
C8_Witness ==
    /\ Searched
    /\ page.status = "error"
    /\ page.search.raised = "re.error"
    /\ page.filtered_data /= <<>>
    /\ page.data = Load(csv).data

\* C9: loading a file that lacks an optional column never fails; a missing
\* flag column gives "No" everywhere, a missing count column gives 0
\* everywhere, and a malformed count is 0.
C9_MissingColumnsDefault ==
    /\ page.stage /= "load"
    /\ \A i \in 1..Len(page.data) :
           /\ "is_harmful?" \notin csv.columns =>
                  page.data[i].is_harmful = <<"N", "o">>
           /\ "harmful_ingredient_count" \notin csv.columns =>
                  page.data[i].harmful_ingredient_count = 0
           /\ "total_ingredients" \notin csv.columns =>
                  page.data[i].total_ingredients = 0
    /\ Len(page.data) = Len(csv.rows)

\* C10: the page is the one a session with the same file, the same sidebar
\* filters and the same main-area query gets with the main-area Category and
\* Brand and the sidebar search text left untouched.
C10_OutcomeIgnoresMainFilters ==
    page = RunScript(csv, [widgets EXCEPT !.sidebar_query = <<>>,
                                          !.main_category = "All",
                                          !.main_brand = {}])

\* All three are set, and the main-area selections would drop a product the
\* search ranked.
C10_Witness ==
    /\ Searched
    /\ widgets.sidebar_query /= <<>>
    /\ widgets.main_category /= "All"
    /\ widgets.main_brand /= {}
    /\ page.search.branch = "match"
    /\ LET p == page.filtered_data[page.search.index]
       IN  p.category /= widgets.main_category /\ p.brand \notin widgets.main_brand

====
